---- MODULE Spec2Model ----
(***************************************************************************)
(* Kanvert: the converter registry (kanvert/core/registry.py) and the      *)
(* converter factory (kanvert/core/factory.py) as state machines.          *)
(*                                                                         *)
(* A Python dict is a function whose DOMAIN is its key set; a Python list  *)
(* is a sequence.  An operation that can raise returns a record whose exc  *)
(* field names the exception ("none" when it returns normally).            *)
(***************************************************************************)
EXTENDS Integers, Sequences, FiniteSets, TLC

VARIABLES
    converters,      \* ConverterRegistry._converters: name -> converter instance
    format_mapping,  \* ConverterRegistry._format_mapping: format value -> list of names
    health_status,   \* ConverterRegistry._health_status: name -> status of the last probe
    last             \* the last registry call: its arguments and its outcome

VARIABLES
    plugins,          \* ConverterFactory._plugins: name -> plugin
    discovery_paths,  \* ConverterFactory._discovery_paths
    auto_discover,    \* ConverterFactory._auto_discover
    probe,            \* the environment: what each plugin's is_available() does
    flast             \* the last factory call and its outcome

VARIABLES
    factory_converters,  \* ConverterFactory._converters: name -> created instance
    build,               \* the environment: what each plugin's create_converter() does
    describe             \* the environment: what get_dependencies()/get_metadata() do

VARIABLES
    config_entries,  \* ConfigurationManager._config_entries: key -> entry
    config_cache,    \* ConfigurationManager._config_cache: key -> value
    clast            \* the last configuration call and its outcome

VARIABLES
    running,   \* the registry call the event loop is inside of, and where
    inflight,  \* the convert() coroutines suspended at their await
    done       \* the convert() call that completed last

VARIABLES
    root,        \* the root DIContainer
    scope,       \* the container create_scope() returned last, or None
    made,        \* how many service instances have been constructed or supplied
    registered,  \* how many register_* calls the root has seen
    served,      \* the instances get_service returned since the last register_* call
    dlast        \* the last container call and its outcome

VARIABLES
    requests,             \* RateLimitMiddleware.requests: client ip -> request times
    rate_limit_requests,  \* Settings.rate_limit_requests
    clock,                \* what time.time() returns
    admitted,             \* client ip -> the times of the requests passed on to call_next
    rlast                 \* the last dispatch and its outcome

VARIABLES
    job,          \* the batch job document in db.batch_jobs, or None
    starting,     \* each start_batch_job request: where it is and the job it read
    tasks,        \* how many process_batch_job tasks asyncio.create_task started
    processing,   \* how many of them have not finished
    transitions   \* how often the status went from pending or paused to processing

regVars == <<converters, format_mapping, health_status, last>>

facVars == <<plugins, discovery_paths, auto_discover, probe, flast>>

createVars == <<factory_converters, build, describe>>

cfgVars == <<config_entries, config_cache, clast>>

asyncVars == <<running, inflight, done>>

diVars == <<root, scope, made, registered, served, dlast>>

rateVars == <<requests, rate_limit_requests, clock, admitted, rlast>>

batchVars == <<job, starting, tasks, processing, transitions>>

extVars == <<asyncVars, diVars, rateVars, batchVars>>

vars == <<converters, format_mapping, health_status, last,
          plugins, discovery_paths, auto_discover, probe, flast,
          factory_converters, build, describe,
          config_entries, config_cache, clast,
          running, inflight, done,
          root, scope, made, registered, served, dlast,
          requests, rate_limit_requests, clock, admitted, rlast,
          job, starting, tasks, processing, transitions>>

----------------------------------------------------------------------------
(* Bounds and input sets *)

\* longest supported_formats list of a converter instance
MaxFormats == 2

\* converter names that get registered
Names == {"a", "b"}

\* the converter_name argument of convert(): omitted (None), empty, or a name
NoName == "<None>"

ConverterNameArgs == Names \cup {NoName, ""}

\* ConversionFormat values used
Formats == {"pdf", "html"}

FormatLists == UNION {[1..n -> Formats] : n \in 0..MaxFormats}

\* Python's None as a returned value
None == [none |-> TRUE]

\* an empty dict
EmptyDict == <<>>

Range(s) == {s[i] : i \in DOMAIN s}

\* Converter instances: BaseConverter objects as far as the registry reads them.
\* validates is the value of validate_request(); is_initialized and errors are
\* what get_health_status() reports; probe_raises says whether that probe raises.
AllConverters ==
    [name : Names, supported_formats : FormatLists, validates : BOOLEAN,
     is_initialized : BOOLEAN, errors : {<<>>, <<"init failed">>},
     probe_raises : BOOLEAN]

\* the instances the registry specification registers: initialized ones
Converters ==
    {c \in AllConverters : c.is_initialized /\ c.errors = <<>> /\ ~c.probe_raises}

\* ConversionRequest: the registry reads output_format only
Requests == [content : {"x"}, output_format : Formats]

\* what a converter's own convert() coroutine hands back
ResultStatuses == {"completed", "failed"}

----------------------------------------------------------------------------
(* BaseConverter *)

\* BaseConverter.validate_request, as the instance implements it
validate_request(converter, request) == converter.validates

\* the ConversionResult of converter.convert(request) with the given status
converter_convert(converter, request, status) ==
    [job_id |-> converter.name, status |-> status,
     output_format |-> request.output_format]

----------------------------------------------------------------------------
(* ConverterRegistry: queries *)

\* dict.get(key, [])
FormatIndex(format) ==
    IF format \in DOMAIN format_mapping THEN format_mapping[format] ELSE <<>>

get_converter(name) ==
    IF name \in DOMAIN converters THEN converters[name] ELSE None

\* [self._converters[name] for name in converter_names]: a name that is no key
\* of the name-map raises KeyError
get_converters_for_format(format) ==
    LET converter_names == FormatIndex(format)
    IN  IF \E i \in DOMAIN converter_names : converter_names[i] \notin DOMAIN converters
        THEN [exc |-> "KeyError", ret |-> <<>>]
        ELSE [exc |-> "none",
              ret |-> [i \in DOMAIN converter_names |-> converters[converter_names[i]]]]

\* the first index a for loop over a list reaches among those in S
MinOf(S) == CHOOSE i \in S : \A j \in S : i <= j

find_best_converter(request) ==
    LET available == get_converters_for_format(request.output_format)
        hits == {i \in DOMAIN available.ret : validate_request(available.ret[i], request)}
    IN  IF available.exc # "none" THEN [exc |-> available.exc, ret |-> None]
        ELSE IF hits = {} THEN [exc |-> "none", ret |-> None]
        ELSE [exc |-> "none",
              ret |-> available.ret[MinOf(hits)]]

get_supported_formats == DOMAIN format_mapping

----------------------------------------------------------------------------
(* ConverterRegistry: health probe *)

\* a probe that looks at the initialization errors before the flag
_check_converter_health_errors_first(converter) ==
    IF converter.probe_raises THEN "unhealthy"
    ELSE IF converter.errors # <<>> THEN "degraded"
    ELSE IF ~converter.is_initialized THEN "unhealthy"
    ELSE IF ~validate_request(converter,
                              [content |-> "# Test", output_format |-> "pdf"])
    THEN "degraded"
    ELSE "healthy"

_check_converter_health(converter) ==
    IF converter.probe_raises THEN "unhealthy"
    ELSE LET test_format == IF converter.supported_formats # <<>>
                            THEN converter.supported_formats[1] ELSE "pdf"
             test_request == [content |-> "# Test", output_format |-> test_format]
             can_validate == validate_request(converter, test_request)
         IN  IF ~converter.is_initialized THEN "unhealthy"
             ELSE IF converter.errors # <<>> THEN "degraded"
             ELSE IF ~can_validate THEN "degraded"
             ELSE "healthy"

\* dict[key] = value
DictSet(d, key, value) ==
    [k \in DOMAIN d \cup {key} |-> IF k = key THEN value ELSE d[k]]

\* del dict[key]
DictDel(d, key) == [k \in DOMAIN d \ {key} |-> d[k]]

----------------------------------------------------------------------------
(* ConverterRegistry.register_converter *)

\* a register_converter that appends without looking for the name first
AddToFormatAlways(mapping, format_key, name) ==
    LET cur == IF format_key \in DOMAIN mapping THEN mapping[format_key] ELSE <<>>
    IN  [k \in DOMAIN mapping \cup {format_key} |->
            IF k = format_key THEN Append(cur, name) ELSE mapping[k]]

\* lines 57-60: create the list when the format is new, append the name
\* unless the list holds it already
AddToFormat(mapping, format_key, name) ==
    LET cur == IF format_key \in DOMAIN mapping THEN mapping[format_key] ELSE <<>>
    IN  DictSet(mapping, format_key,
                IF name \in Range(cur) THEN cur ELSE Append(cur, name))

\* the loop of lines 55-60 over supported_formats[i..]
RECURSIVE AddFormats(_, _, _, _)
AddFormats(mapping, fmts, i, name) ==
    IF i > Len(fmts) THEN mapping
    ELSE AddFormats(AddToFormat(mapping, fmts[i], name), fmts, i + 1, name)

Register(converter) ==
    /\ converters' = DictSet(converters, converter.name, converter)
    /\ health_status' =
           DictSet(health_status, converter.name, _check_converter_health(converter))
    /\ format_mapping' =
           AddFormats(format_mapping, converter.supported_formats, 1, converter.name)
    /\ last' = [op |-> "register", name |-> converter.name, arg |-> converter,
                existed |-> converter.name \in DOMAIN converters,
                request |-> None, status |-> "-", exc |-> "none", ret |-> None,
                calls |-> <<>>]

----------------------------------------------------------------------------
(* ConverterRegistry.unregister_converter *)

\* lines 126-131: drop the name from one format's list, prune an empty list
RemoveFromFormat(mapping, format_key, name) ==
    IF format_key \notin DOMAIN mapping THEN mapping
    ELSE LET kept == SelectSeq(mapping[format_key], LAMBDA c : c # name)
         IN  IF kept = <<>> THEN DictDel(mapping, format_key)
             ELSE DictSet(mapping, format_key, kept)

\* the loop of lines 124-131 over the registered instance's supported_formats
RECURSIVE RemoveFormats(_, _, _, _)
RemoveFormats(mapping, fmts, i, name) ==
    IF i > Len(fmts) THEN mapping
    ELSE RemoveFormats(RemoveFromFormat(mapping, fmts[i], name), fmts, i + 1, name)

\* an unregister_converter that clears the name out of the format index even
\* when the name is not registered
UnregisterPruningAnyway(name) ==
    /\ IF name \notin DOMAIN converters
       THEN /\ format_mapping' = RemoveFormats(format_mapping, <<"pdf", "html">>, 1, name)
            /\ UNCHANGED converters
       ELSE /\ format_mapping' =
                   RemoveFormats(format_mapping, converters[name].supported_formats,
                                 1, name)
            /\ converters' = DictDel(converters, name)
    /\ UNCHANGED health_status
    /\ last' = [op |-> "unregister", name |-> name, arg |-> None,
                existed |-> name \in DOMAIN converters,
                request |-> None, status |-> "-", exc |-> "none", ret |-> None,
                calls |-> <<>>]

Unregister(name) ==
    /\ IF name \notin DOMAIN converters
       THEN UNCHANGED <<converters, format_mapping>>
       ELSE /\ format_mapping' =
                   RemoveFormats(format_mapping, converters[name].supported_formats,
                                 1, name)
            /\ converters' = DictDel(converters, name)
    /\ UNCHANGED health_status
    /\ last' = [op |-> "unregister", name |-> name, arg |-> None,
                existed |-> name \in DOMAIN converters,
                request |-> None, status |-> "-", exc |-> "none", ret |-> None,
                calls |-> <<>>]

----------------------------------------------------------------------------
(* ConverterRegistry.convert *)

\* Python truthiness of the converter_name argument: None and "" are falsy
Truthy(converter_name) == converter_name # NoName /\ converter_name # ""

\* a convert() that tries the chosen converter again after a failed result
convert_retrying(request, converter_name, status) ==
    LET named == get_converter(converter_name)
        best == find_best_converter(request)
        chosen == IF Truthy(converter_name) THEN named ELSE best.ret
    IN  IF Truthy(converter_name) /\ named = None
        THEN [exc |-> "ValidationError: not found", ret |-> None, calls |-> <<>>]
        ELSE IF ~Truthy(converter_name) /\ best.exc # "none"
        THEN [exc |-> best.exc, ret |-> None, calls |-> <<>>]
        ELSE IF chosen = None
        THEN [exc |-> "ValidationError: No converter available",
              ret |-> None, calls |-> <<>>]
        ELSE [exc |-> "none", ret |-> converter_convert(chosen, request, status),
              calls |-> IF status = "failed" THEN <<chosen, chosen>> ELSE <<chosen>>]

\* a convert() that selects by format when the named converter is missing
convert_falling_back(request, converter_name, status) ==
    LET named == get_converter(converter_name)
        best == find_best_converter(request)
        chosen == IF Truthy(converter_name) /\ named # None THEN named ELSE best.ret
    IN  IF best.exc # "none" /\ chosen # named
        THEN [exc |-> best.exc, ret |-> None, calls |-> <<>>]
        ELSE IF chosen = None
        THEN [exc |-> "ValidationError: No converter available",
              ret |-> None, calls |-> <<>>]
        ELSE [exc |-> "none", ret |-> converter_convert(chosen, request, status),
              calls |-> <<chosen>>]

\* a convert() that asks the named converter to validate the request first
convert_validating_named(request, converter_name, status) ==
    LET named == get_converter(converter_name)
        best == find_best_converter(request)
    IN  IF Truthy(converter_name)
        THEN IF named = None
             THEN [exc |-> "ValidationError: not found", ret |-> None, calls |-> <<>>]
             ELSE IF ~validate_request(named, request)
             THEN [exc |-> "ValidationError: invalid request", ret |-> None,
                   calls |-> <<>>]
             ELSE [exc |-> "none", ret |-> converter_convert(named, request, status),
                   calls |-> <<named>>]
        ELSE IF best.exc # "none"
             THEN [exc |-> best.exc, ret |-> None, calls |-> <<>>]
             ELSE IF best.ret = None
             THEN [exc |-> "ValidationError: No converter available",
                   ret |-> None, calls |-> <<>>]
             ELSE [exc |-> "none", ret |-> converter_convert(best.ret, request, status),
                   calls |-> <<best.ret>>]

\* convert(request, converter_name) (lines 182-208) when the chosen converter's
\* coroutine hands back a result of the given status: the exception raised,
\* the value returned, and the converters whose convert() ran, in order
convert(request, converter_name, status) ==
    LET named == get_converter(converter_name)
        best == find_best_converter(request)
    IN  IF Truthy(converter_name)
        THEN IF named = None
             THEN [exc |-> "ValidationError: not found", ret |-> None, calls |-> <<>>]
             ELSE [exc |-> "none", ret |-> converter_convert(named, request, status),
                   calls |-> <<named>>]
        ELSE IF best.exc # "none"
             THEN [exc |-> best.exc, ret |-> None, calls |-> <<>>]
             ELSE IF best.ret = None
             THEN [exc |-> "ValidationError: No converter available",
                   ret |-> None, calls |-> <<>>]
             ELSE [exc |-> "none", ret |-> converter_convert(best.ret, request, status),
                   calls |-> <<best.ret>>]

Convert(request, converter_name, status) ==
    LET out == convert(request, converter_name, status)
    IN  /\ last' = [op |-> "convert", name |-> converter_name, arg |-> None,
                    existed |-> converter_name \in DOMAIN converters,
                    request |-> request,
                    status |-> IF out.calls = <<>> THEN "-" ELSE status,
                    exc |-> out.exc, ret |-> out.ret, calls |-> out.calls]
        /\ UNCHANGED <<converters, format_mapping, health_status>>

RegistryInit ==
    /\ converters = EmptyDict
    /\ format_mapping = EmptyDict
    /\ health_status = EmptyDict
    /\ last = [op |-> "init", name |-> NoName, arg |-> None, existed |-> FALSE,
               request |-> None, status |-> "-", exc |-> "none", ret |-> None,
               calls |-> <<>>]

----------------------------------------------------------------------------
(* ConverterRegistry.health_check and the health endpoints *)

\* converter names of the health specification
HealthNames == {"a", "b", "c"}

\* the instances the health specification registers, one per way the probe
\* can come out: healthy, initialization errors, not initialized (with and
\* without errors), a request that does not validate, a probe that raises
HealthConverters ==
    {c \in [name : HealthNames, supported_formats : {<<"pdf">>},
            validates : BOOLEAN, is_initialized : BOOLEAN,
            errors : {<<>>, <<"init failed">>}, probe_raises : BOOLEAN] :
        /\ c.probe_raises => c.validates /\ c.is_initialized /\ c.errors = <<>>
        /\ ~c.validates => c.is_initialized /\ c.errors = <<>>}

\* a tally that takes every converter that is not healthy for degraded
TallyNotHealthyAsDegraded(counts, status) ==
    IF status = "healthy"
    THEN [counts EXCEPT !.healthy = @ + 1]
    ELSE [counts EXCEPT !.degraded = @ + 1]

\* lines 247-250: one converter's status added to the counters
Tally(counts, status) ==
    IF status = "healthy"
    THEN [counts EXCEPT !.healthy = @ + 1]
    ELSE IF status = "degraded"
    THEN [counts EXCEPT !.degraded = @ + 1]
    ELSE counts

\* the loop of lines 240-250 over the names not yet visited: the statuses
\* probed and the counters
RECURSIVE HealthLoop(_, _, _)
HealthLoop(todo, converter_status, counts) ==
    IF todo = {} THEN [converter_status |-> converter_status, counts |-> counts]
    ELSE LET name == CHOOSE n \in todo : TRUE
             status == _check_converter_health(converters[name])
         IN  HealthLoop(todo \ {name}, DictSet(converter_status, name, status),
                        Tally(counts, status))

\* an overall status that looks for degraded converters first
overall_status_degraded_first(healthy_converters, degraded_converters) ==
    IF degraded_converters > 0 THEN "degraded"
    ELSE IF healthy_converters = 0 THEN "unhealthy"
    ELSE "healthy"

\* lines 252-256
overall_status(healthy_converters, degraded_converters) ==
    IF healthy_converters = 0 THEN "unhealthy"
    ELSE IF degraded_converters > 0 THEN "degraded"
    ELSE "healthy"

\* health_check (lines 228-270): the report.  Its "configuration" entry
\* (line 259) reads the configuration manager only and is left out.
health_check ==
    LET total_converters == Cardinality(DOMAIN converters)
        loop == HealthLoop(DOMAIN converters, EmptyDict,
                           [healthy |-> 0, degraded |-> 0])
        healthy_converters == loop.counts.healthy
        degraded_converters == loop.counts.degraded
    IN  [total_converters |-> total_converters,
         healthy_converters |-> healthy_converters,
         degraded_converters |-> degraded_converters,
         unhealthy_converters |->
             total_converters - healthy_converters - degraded_converters,
         status |-> overall_status(healthy_converters, degraded_converters),
         converters |-> loop.converter_status,
         supported_formats |-> get_supported_formats]

\* line 243: every registered converter's snapshot is replaced
HealthSnapshots(report) ==
    [n \in DOMAIN health_status \cup DOMAIN report.converters |->
        IF n \in DOMAIN report.converters THEN report.converters[n]
        ELSE health_status[n]]

HealthCheck ==
    LET report == health_check
    IN  /\ health_status' = HealthSnapshots(report)
        /\ last' = [op |-> "health_check", name |-> NoName, arg |-> None,
                    existed |-> FALSE, request |-> None, status |-> "-",
                    exc |-> "none", ret |-> report, calls |-> <<>>]
        /\ UNCHANGED <<converters, format_mapping>>

\* main.py lines 114-118 and routes.py lines 573-577: the response code
http_status(report) ==
    IF report.status = "degraded" THEN 207
    ELSE IF report.healthy_converters = 0 THEN 503
    ELSE 200

\* GET /health (main.py lines 100-131); the registry's health_check lets no
\* exception out, so the 500 response of lines 123-131 is never built
AppHealthCheck ==
    LET report == health_check
    IN  /\ health_status' = HealthSnapshots(report)
        /\ last' = [op |-> "GET /health", name |-> NoName, arg |-> None,
                    existed |-> FALSE, request |-> None, status |-> "-",
                    exc |-> "none",
                    ret |-> [status_code |-> http_status(report), content |-> report],
                    calls |-> <<>>]
        /\ UNCHANGED <<converters, format_mapping>>

\* GET /api/v1/convert/health (routes.py lines 566-592)
ConversionHealthCheck ==
    LET report == health_check
    IN  /\ health_status' = HealthSnapshots(report)
        /\ last' = [op |-> "GET /api/v1/convert/health", name |-> NoName,
                    arg |-> None, existed |-> FALSE, request |-> None,
                    status |-> "-", exc |-> "none",
                    ret |-> [status_code |-> http_status(report), content |-> report],
                    calls |-> <<>>]
        /\ UNCHANGED <<converters, format_mapping>>

----------------------------------------------------------------------------
(* ConfigurationManager (kanvert/core/config_manager.py) *)

\* configuration values: Python ints, strings and None; a dict counts as
\* one opaque value
IntValues == {1, 5, 9}

StrValues == {"A3", "Tabloid"}

ConfigValues ==
    {[int |-> n] : n \in IntValues} \cup {[str |-> t] : t \in StrValues} \cup {None}

\* type(value).__name__
TypeOf(value) ==
    IF "int" \in DOMAIN value THEN "int"
    ELSE IF "str" \in DOMAIN value THEN "str"
    ELSE IF "dict" \in DOMAIN value THEN "dict"
    ELSE "NoneType"

\* isinstance(value, (int, float))
IsNumber(value) == TypeOf(value) = "int"

\* the validation_rules dicts entries are given: None, or any of the keys
\* allowed_values, type, min_value, max_value
RuleSets ==
    {None,
     [allowed_values |-> {[int |-> 1], [str |-> "A3"]}],
     [type |-> "int"],
     [type |-> "str"],
     [min_value |-> 2, max_value |-> 8],
     [type |-> "int", min_value |-> 2],
     [max_value |-> 8]}

\* the keys update_config_value() is called with; the last has no entry
ConfigKeys == {"pdf.page_size", "converter.timeout", "quality", "no.such.key"}

\* the entries callers hand to set_config_entry()
ConfigEntries == [key : {"quality"}, value : ConfigValues, validation_rules : RuleSets]

\* a validation that skips the range check
_validate_config_value_no_range(entry, value) ==
    IF entry.validation_rules = None THEN TRUE
    ELSE LET rules == entry.validation_rules
         IN  IF "allowed_values" \in DOMAIN rules /\ value \notin rules.allowed_values
             THEN FALSE
             ELSE IF "type" \in DOMAIN rules /\ TypeOf(value) # rules.type
             THEN FALSE
             ELSE TRUE

\* _validate_config_value (lines 146-172)
_validate_config_value(entry, value) ==
    IF entry.validation_rules = None THEN TRUE
    ELSE LET rules == entry.validation_rules
         IN  IF "allowed_values" \in DOMAIN rules /\ value \notin rules.allowed_values
             THEN FALSE
             ELSE IF "type" \in DOMAIN rules /\ TypeOf(value) # rules.type
             THEN FALSE
             ELSE IF /\ "min_value" \in DOMAIN rules \/ "max_value" \in DOMAIN rules
                     /\ IsNumber(value)
                     /\ \/ "min_value" \in DOMAIN rules /\ value.int < rules.min_value
                        \/ "max_value" \in DOMAIN rules /\ value.int > rules.max_value
             THEN FALSE
             ELSE TRUE

\* get_config_value(key, default) (lines 117-126); no entry of the model has
\* a value of None with a default_value behind it
get_config_value(key, default) ==
    IF key \in DOMAIN config_cache THEN config_cache[key]
    ELSE IF key \in DOMAIN config_entries THEN config_entries[key].value
    ELSE default

\* set_config_entry (lines 111-115)
SetConfigEntry(entry) ==
    /\ config_entries' = DictSet(config_entries, entry.key, entry)
    /\ config_cache' = DictSet(config_cache, entry.key, entry.value)
    /\ clast' = [op |-> "set_config_entry", key |-> entry.key, value |-> entry.value,
                 ret |-> FALSE, old_entry |-> None, old_value |-> None]

\* update_config_value (lines 128-144)
UpdateConfigValue(key, value) ==
    LET known == key \in DOMAIN config_entries
        valid == known /\ _validate_config_value(config_entries[key], value)
    IN  /\ IF valid
           THEN /\ config_entries' =
                       [config_entries EXCEPT ![key] = [@ EXCEPT !.value = value]]
                /\ config_cache' = DictSet(config_cache, key, value)
           ELSE UNCHANGED <<config_entries, config_cache>>
        /\ clast' = [op |-> "update_config_value", key |-> key, value |-> value,
                     ret |-> valid,
                     old_entry |-> IF known THEN config_entries[key] ELSE None,
                     old_value |-> get_config_value(key, [str |-> "<default>"])]

\* ConfigurationManager.__init__ (lines 48-56) with _initialize_default_configs
\* (lines 58-109)
DefaultEntries ==
    [key \in {"app.max_content_size", "app.temp_dir", "converter.timeout",
              "converter.max_retries", "pdf.page_size", "pdf.margins"} |->
        [key |-> key,
         value |-> CASE key = "app.max_content_size" -> [int |-> 5 * 1024 * 1024]
                     [] key = "app.temp_dir" -> [str |-> "/tmp/kanvert"]
                     [] key = "converter.timeout" -> [int |-> 300]
                     [] key = "converter.max_retries" -> [int |-> 3]
                     [] key = "pdf.page_size" -> [str |-> "A4"]
                     [] OTHER -> [dict |-> "2cm margins"],
         validation_rules |->
             IF key = "pdf.page_size"
             THEN [allowed_values |-> {[str |-> "A4"], [str |-> "A3"],
                                       [str |-> "Letter"], [str |-> "Legal"]}]
             ELSE None]]

ConfigNew ==
    /\ config_entries = DefaultEntries
    /\ config_cache = [key \in DOMAIN DefaultEntries |-> DefaultEntries[key].value]
    /\ clast = [op |-> "init", key |-> "-", value |-> None, ret |-> FALSE,
                old_entry |-> None, old_value |-> None]

----------------------------------------------------------------------------
(* DIContainer (kanvert/core/container.py) *)

\* how many instances are constructed or supplied
MaxInstances == 3

\* how many register_* calls the root container sees
MaxRegistrations == 2

\* the service type that is registered and resolved
ServiceTypes == {"S"}

\* ServiceLifetime (lines 14-18)
Lifetimes == {"singleton", "scoped", "transient"}

\* a ServiceDescriptor (lines 21-39); reg numbers the register_* call it is of
ServiceDescriptor(reg, how, instance, lifetime) ==
    [reg |-> reg, how |-> how, instance |-> instance, lifetime |-> lifetime]

\* the object number id, constructed by or supplied with registration reg
Instance(id, reg) == [id |-> id, reg |-> reg]

\* DIContainer.__init__ (lines 45-49)
NewContainer ==
    [_services |-> EmptyDict, _singletons |-> EmptyDict,
     _scoped_instances |-> EmptyDict, _is_scoped |-> FALSE]

\* register_singleton, register_scoped, register_transient and
\* register_factory (lines 51-85, 99-108): the descriptor replaces the one of
\* the service type
register(container, service_type, descriptor) ==
    [container EXCEPT !._services = DictSet(@, service_type, descriptor)]

\* register_instance (lines 87-97): the instance is the singleton as well
register_instance(container, service_type, descriptor) ==
    [container EXCEPT !._services = DictSet(@, service_type, descriptor),
                      !._singletons = DictSet(@, service_type, descriptor.instance)]

\* get_service (lines 110-138) on a container, fresh being the number of the
\* object _create_instance would construct: the exception raised, the
\* instance returned, the container afterwards and whether fresh was used
get_service(container, service_type, fresh) ==
    IF service_type \notin DOMAIN container._services
    THEN [exc |-> "ValueError", ret |-> None, container |-> container,
          created |-> FALSE]
    ELSE LET descriptor == container._services[service_type]
             instance == Instance(fresh, descriptor.reg)
         IN  IF descriptor.instance # None
             THEN [exc |-> "none", ret |-> descriptor.instance,
                   container |-> container, created |-> FALSE]
             ELSE IF descriptor.lifetime = "singleton"
                     /\ service_type \in DOMAIN container._singletons
             THEN [exc |-> "none", ret |-> container._singletons[service_type],
                   container |-> container, created |-> FALSE]
             ELSE IF descriptor.lifetime = "scoped" /\ container._is_scoped
                     /\ service_type \in DOMAIN container._scoped_instances
             THEN [exc |-> "none", ret |-> container._scoped_instances[service_type],
                   container |-> container, created |-> FALSE]
             ELSE [exc |-> "none", ret |-> instance, created |-> TRUE,
                   container |->
                       IF descriptor.lifetime = "singleton"
                       THEN [container EXCEPT
                                 !._singletons = DictSet(@, service_type, instance)]
                       ELSE IF descriptor.lifetime = "scoped" /\ container._is_scoped
                       THEN [container EXCEPT
                                 !._scoped_instances = DictSet(@, service_type, instance)]
                       ELSE container]

\* create_scope (lines 206-212): copies of the registrations and of the
\* singletons resolved so far
create_scope(container) ==
    [_services |-> container._services, _singletons |-> container._singletons,
     _scoped_instances |-> EmptyDict, _is_scoped |-> TRUE]

\* dispose_scope (lines 214-224)
dispose_scope(container) ==
    [container EXCEPT !._scoped_instances = EmptyDict, !._is_scoped = FALSE]

\* a register_* call on the root container with the descriptor given
Registration(op, service_type, descriptor, container) ==
    /\ registered < MaxRegistrations
    /\ root' = container
    /\ registered' = registered + 1
    /\ served' = {}
    /\ dlast' = [op |-> op, on |-> "root", service_type |-> service_type,
                 exc |-> "none", ret |-> None]
    /\ UNCHANGED scope

RegisterSingleton(service_type) ==
    LET descriptor == ServiceDescriptor(registered + 1, "implementation", None,
                                        "singleton")
    IN  /\ Registration("register_singleton", service_type, descriptor,
                        register(root, service_type, descriptor))
        /\ UNCHANGED made

RegisterScoped(service_type) ==
    LET descriptor == ServiceDescriptor(registered + 1, "implementation", None,
                                        "scoped")
    IN  /\ Registration("register_scoped", service_type, descriptor,
                        register(root, service_type, descriptor))
        /\ UNCHANGED made

RegisterTransient(service_type) ==
    LET descriptor == ServiceDescriptor(registered + 1, "implementation", None,
                                        "transient")
    IN  /\ Registration("register_transient", service_type, descriptor,
                        register(root, service_type, descriptor))
        /\ UNCHANGED made

RegisterFactory(service_type, lifetime) ==
    LET descriptor == ServiceDescriptor(registered + 1, "factory", None, lifetime)
    IN  /\ Registration("register_factory", service_type, descriptor,
                        register(root, service_type, descriptor))
        /\ UNCHANGED made

\* the instance handed in is an object made by the caller
RegisterInstance(service_type) ==
    LET descriptor == ServiceDescriptor(registered + 1, "instance",
                                        Instance(made + 1, registered + 1),
                                        "singleton")
    IN  /\ made < MaxInstances
        /\ Registration("register_instance", service_type, descriptor,
                        register_instance(root, service_type, descriptor))
        /\ made' = made + 1

\* get_service on the root ("root") or on the scope ("scope")
GetService(on, service_type) ==
    LET container == IF on = "root" THEN root ELSE scope
        out == get_service(container, service_type, made + 1)
    IN  /\ on = "scope" => scope # None
        /\ out.created => made < MaxInstances
        /\ made' = IF out.created THEN made + 1 ELSE made
        /\ IF on = "root" THEN root' = out.container /\ UNCHANGED scope
                          ELSE scope' = out.container /\ UNCHANGED root
        /\ served' = IF out.exc = "none" THEN served \cup {out.ret} ELSE served
        /\ dlast' = [op |-> "get_service", on |-> on, service_type |-> service_type,
                     exc |-> out.exc, ret |-> out.ret]
        /\ UNCHANGED registered

CreateScope ==
    /\ scope' = create_scope(root)
    /\ dlast' = [op |-> "create_scope", on |-> "root", service_type |-> "-",
                 exc |-> "none", ret |-> None]
    /\ UNCHANGED <<root, made, registered, served>>

DisposeScope ==
    /\ scope # None
    /\ scope' = dispose_scope(scope)
    /\ dlast' = [op |-> "dispose_scope", on |-> "scope", service_type |-> "-",
                 exc |-> "none", ret |-> None]
    /\ UNCHANGED <<root, made, registered, served>>

ContainerNew ==
    /\ root = NewContainer
    /\ scope = None
    /\ made = 0
    /\ registered = 0
    /\ served = {}
    /\ dlast = [op |-> "init", on |-> "root", service_type |-> "-", exc |-> "none",
                ret |-> None]

----------------------------------------------------------------------------
(* RateLimitMiddleware (kanvert/api/middleware.py) *)

\* the largest rate_limit_requests configured
MaxLimit == 2

\* the time at which the clock stops
MaxTime == 120

\* the seconds by which time.time() moves on between two requests
ClockSteps == {30, 60}

\* the sliding window of line 130, in seconds
Window == 60

\* Settings.rate_limit_requests as shipped (settings.py line 55)
DefaultRateLimit == 100

\* request.client.host, or "unknown" without a client (line 126)
Clients == {"10.0.0.1", "unknown"}

\* [req_time for req_time in times if req_time > minute_ago]
RECURSIVE Newer(_, _)
Newer(times, minute_ago) ==
    IF times = <<>> THEN <<>>
    ELSE IF Head(times) > minute_ago
         THEN <<Head(times)>> \o Newer(Tail(times), minute_ago)
         ELSE Newer(Tail(times), minute_ago)

\* dispatch (lines 125-158) up to call_next: the status of the response, the
\* request map it leaves and whether current_time was appended to it
dispatch(client_ip, current_time) ==
    LET minute_ago == current_time - Window
        cleaned == [ip \in DOMAIN requests |-> Newer(requests[ip], minute_ago)]
        listed == IF client_ip \in DOMAIN cleaned THEN cleaned
                  ELSE DictSet(cleaned, client_ip, <<>>)
    IN  IF client_ip \in DOMAIN cleaned
           /\ Len(cleaned[client_ip]) >= rate_limit_requests
        THEN [status |-> 429, requests |-> cleaned, recorded |-> FALSE]
        ELSE [status |-> 200, recorded |-> TRUE,
              requests |-> DictSet(listed, client_ip,
                                   Append(listed[client_ip], current_time))]

Dispatch(client_ip) ==
    LET out == dispatch(client_ip, clock)
    IN  /\ requests' = out.requests
        /\ admitted' = IF out.status = 200
                       THEN [admitted EXCEPT ![client_ip] = Append(@, clock)]
                       ELSE admitted
        /\ rlast' = [op |-> "dispatch", client_ip |-> client_ip,
                     status |-> out.status, recorded |-> out.recorded,
                     listed |-> client_ip \in DOMAIN requests]
        /\ UNCHANGED <<rate_limit_requests, clock>>

\* time passes between two requests
ClockMoves(seconds) ==
    /\ clock + seconds <= MaxTime
    /\ clock' = clock + seconds
    /\ rlast' = [op |-> "clock", client_ip |-> "-", status |-> 0,
                 recorded |-> FALSE, listed |-> FALSE]
    /\ UNCHANGED <<requests, rate_limit_requests, admitted>>

\* RateLimitMiddleware.__init__ (lines 120-123)
RateStart ==
    /\ requests = EmptyDict
    /\ clock = 0
    /\ admitted = [ip \in Clients |-> <<>>]
    /\ rlast = [op |-> "init", client_ip |-> "-", status |-> 0, recorded |-> FALSE,
                listed |-> FALSE]

RateNew == RateStart /\ rate_limit_requests = DefaultRateLimit

----------------------------------------------------------------------------
(* Batch jobs (kanvert/api/advanced.py) *)

\* how many start_batch_job requests arrive for the job
NumRequests == 3

StartRequests == 1..NumRequests

\* create_batch_job (lines 87-119): the document inserted
CreateBatchJob ==
    /\ job = None
    /\ job' = [status |-> "pending", files |-> 0]
    /\ UNCHANGED <<starting, tasks, processing, transitions>>

\* add_files_to_batch_job (lines 122-172) for one file: the document read
\* allows it and the file is pushed
AddFiles ==
    /\ job # None
    /\ job.status \in {"pending", "paused"}
    /\ job.files = 0
    /\ job' = [job EXCEPT !.files = 1]
    /\ UNCHANGED <<starting, tasks, processing, transitions>>

\* start_batch_job up to its first database call (line 181): the request is
\* under way
StartBegins(r) ==
    /\ starting[r].pc = "new"
    /\ starting' = [starting EXCEPT ![r].pc = "find_one"]
    /\ UNCHANGED <<job, tasks, processing, transitions>>

\* the answer of the checks of lines 189-196 to the document read
StartChecks(read) ==
    IF read = None THEN 404
    ELSE IF read.status \notin {"pending", "paused"} THEN 400
    ELSE IF read.files = 0 THEN 400
    ELSE 200

\* find_one returns (line 184) and the checks of lines 189-196 run on the
\* document read; a request that passes them goes on to await update_one
StartReads(r) ==
    /\ starting[r].pc = "find_one"
    /\ starting' = [starting EXCEPT
                        ![r] = [pc |-> IF StartChecks(job) = 200 THEN "update_one"
                                       ELSE "rejected",
                                job |-> job, code |-> StartChecks(job)]]
    /\ UNCHANGED <<job, tasks, processing, transitions>>

\* update_one writes status processing (lines 199-202), then the task is
\* created and the request returns (lines 205-207)
StartUpdates(r) ==
    /\ starting[r].pc = "update_one"
    /\ job' = [job EXCEPT !.status = "processing"]
    /\ transitions' = IF job.status \in {"pending", "paused"}
                      THEN transitions + 1 ELSE transitions
    /\ tasks' = tasks + 1
    /\ processing' = processing + 1
    /\ starting' = [starting EXCEPT ![r].pc = "started"]

\* process_batch_job (lines 210-282) comes to its end and marks the job
ProcessBatchJobEnds(status) ==
    /\ processing > 0
    /\ processing' = processing - 1
    /\ job' = [job EXCEPT !.status = status]
    /\ UNCHANGED <<starting, tasks, transitions>>

BatchNew ==
    /\ job = None
    /\ starting = [r \in StartRequests |-> [pc |-> "new", job |-> None, code |-> 0]]
    /\ tasks = 0
    /\ processing = 0
    /\ transitions = 0

----------------------------------------------------------------------------
(* The registry under coroutines of one event loop.  A call runs from one   *)
(* await to the next before the loop lets another coroutine run.            *)

\* how many convert() coroutines are suspended at once
MaxInflight == 2

\* the converters and the request of the coroutine specification
AsyncConverters == {c \in Converters : c.supported_formats = <<"pdf">>}

AsyncRequest == [content |-> "x", output_format |-> "pdf"]

\* no registry call is under way
Idle == [op |-> "idle", pc |-> "-"]

\* the awaits of unregister_converter, were one placed between the pruning of
\* the format index and the deletion from the name-map
AwaitPointsInUnregister(op) ==
    IF op = "unregister_converter" THEN {"del"} ELSE {}

\* the program points of a registry call at which it awaits:
\* register_converter (lines 29-67), unregister_converter (lines 110-134) and
\* health_check (lines 228-270) are plain functions and hold no await;
\* convert awaits the chosen converter (line 208), where the model keeps the
\* coroutine in inflight and not in running
AwaitPoints(op) == {}

\* the event loop can run another coroutine
CanSwitch == running = Idle \/ running.pc \in AwaitPoints(running.op)

\* register_converter up to line 52: the name-map and the snapshot are written
RegisterBegin(converter) ==
    /\ CanSwitch
    /\ converters' = DictSet(converters, converter.name, converter)
    /\ health_status' =
           DictSet(health_status, converter.name, _check_converter_health(converter))
    /\ running' = [op |-> "register_converter", pc |-> "format_mapping",
                   converter |-> converter]
    /\ UNCHANGED <<format_mapping, last, inflight, done>>

\* register_converter from line 54 on: the format index is written
RegisterEnd ==
    /\ running # Idle
    /\ running.op = "register_converter"
    /\ format_mapping' =
           AddFormats(format_mapping, running.converter.supported_formats, 1,
                      running.converter.name)
    /\ running' = Idle
    /\ UNCHANGED <<converters, health_status, last, inflight, done>>

\* unregister_converter up to line 131: an unknown name returns at once, a
\* known one is pruned from the format index
UnregisterBegin(name) ==
    /\ CanSwitch
    /\ IF name \notin DOMAIN converters
       THEN UNCHANGED <<format_mapping, running>>
       ELSE /\ format_mapping' =
                   RemoveFormats(format_mapping, converters[name].supported_formats,
                                 1, name)
            /\ running' = [op |-> "unregister_converter", pc |-> "del", name |-> name]
    /\ UNCHANGED <<converters, health_status, last, inflight, done>>

\* unregister_converter line 133: the name leaves the name-map
UnregisterEnd ==
    /\ running # Idle
    /\ running.op = "unregister_converter"
    /\ converters' = DictDel(converters, running.name)
    /\ running' = Idle
    /\ UNCHANGED <<format_mapping, health_status, last, inflight, done>>

\* convert up to its await (lines 196-208): the converter is selected and
\* kept in the coroutine's local variable; a ValidationError ends the call
ConvertBegin(request, converter_name) ==
    LET out == convert(request, converter_name, "completed")
    IN  /\ CanSwitch
        /\ IF out.exc # "none"
           THEN /\ done' = [op |-> "convert", exc |-> out.exc, selected |-> None,
                            ran |-> None]
                /\ UNCHANGED inflight
           ELSE /\ Cardinality(inflight) < MaxInflight
                /\ inflight' = inflight \cup
                       {[request |-> request, converter |-> out.calls[1]]}
                /\ UNCHANGED done
        /\ UNCHANGED <<converters, format_mapping, health_status, last, running>>

\* the instance whose convert() a resumed coroutine returns the result of:
\* the local variable converter of line 208
ResumeTarget(call) == call.converter

\* the converter's coroutine finishes and convert() returns (line 208)
ConvertResume(call) ==
    /\ CanSwitch
    /\ call \in inflight
    /\ inflight' = inflight \ {call}
    /\ done' = [op |-> "convert", exc |-> "none", selected |-> call.converter,
                ran |-> ResumeTarget(call)]
    /\ UNCHANGED <<converters, format_mapping, health_status, last, running>>

\* health_check between two awaits
HealthCheckAtomic ==
    /\ CanSwitch
    /\ HealthCheck
    /\ UNCHANGED asyncVars

AsyncNew ==
    /\ running = Idle
    /\ inflight = {}
    /\ done = [op |-> "init", exc |-> "none", selected |-> None, ran |-> None]

ExtNew == AsyncNew /\ ContainerNew /\ RateNew /\ BatchNew

-----------------------------------------------------------------------
(* ConverterFactory (kanvert/core/factory.py) *)

\* how many of the built-in plugin classes of plugins.AVAILABLE_PLUGINS exist
NumBuiltin == 2

\* plugins.AVAILABLE_PLUGINS, in its order
AVAILABLE_PLUGINS ==
    <<"markdown_to_pdf", "docx_to_pdf", "html_to_pdf", "office_to_pdf", "docx_compare">>

\* get_all_plugins(): one fresh plugin object per built-in class
get_all_plugins ==
    [i \in 1..(IF NumBuiltin < Len(AVAILABLE_PLUGINS) THEN NumBuiltin
               ELSE Len(AVAILABLE_PLUGINS)) |->
        [name |-> AVAILABLE_PLUGINS[i], origin |-> "builtin"]]

BuiltinNames == {get_all_plugins[i].name : i \in DOMAIN get_all_plugins}

\* discovery paths: a directory holding plugin files, and one that does not exist
Paths == {"plugins_dir", "missing_dir"}

path_exists(path) == path = "plugins_dir"

\* the plugin classes each *.py file of a directory defines, file by file
PluginFiles(path) ==
    IF path = "plugins_dir" THEN << <<"custom_pdf">> >> ELSE <<>>

PluginNames == BuiltinNames \cup {"custom_pdf"}

\* what plugin.is_available() does: returns True or False, or raises
ProbeOutcomes == {"true", "false", "ImportError", "OSError"}

Raises(outcome) == outcome \in {"ImportError", "OSError"}

\* the plugin objects handed to register_plugin() by callers
ManualPlugins == [name : PluginNames, origin : {"manual"}]

\* a register_plugin that keeps the plugin already registered under the name
register_plugin_keeping_first(plugs, plugin) ==
    IF plugin.name \in DOMAIN plugs THEN plugs ELSE DictSet(plugs, plugin.name, plugin)

\* register_plugin (lines 65-72)
register_plugin(plugs, plugin) == DictSet(plugs, plugin.name, plugin)

\* _discover_builtin_converters (lines 86-102): one try block around the whole
\* loop, catching ImportError only; the fallback it then runs
\* (_discover_builtin_converters_fallback, lines 104-130) registers nothing
\* and lets no exception out
RECURSIVE _discover_builtin_converters(_, _, _)
_discover_builtin_converters(plugs, list, i) ==
    IF i > Len(list) THEN [plugins |-> plugs, exc |-> "none"]
    ELSE LET outcome == probe[list[i].name]
         IN  IF outcome = "true"
             THEN _discover_builtin_converters(register_plugin(plugs, list[i]), list, i + 1)
             ELSE IF outcome = "false"
             THEN _discover_builtin_converters(plugs, list, i + 1)
             ELSE IF outcome = "ImportError"
             THEN [plugins |-> plugs, exc |-> "none"]
             ELSE [plugins |-> plugs, exc |-> outcome]

\* the classes of one plugin file (lines 149-156), inside the file's own
\* try/except Exception (lines 142, 158): a raising probe ends the file only
RECURSIVE _load_plugin_file(_, _, _)
_load_plugin_file(plugs, classes, i) ==
    IF i > Len(classes) THEN plugs
    ELSE LET plugin == [name |-> classes[i], origin |-> "path"]
             outcome == probe[classes[i]]
         IN  IF Raises(outcome) THEN plugs
             ELSE IF outcome = "true"
             THEN _load_plugin_file(register_plugin(plugs, plugin), classes, i + 1)
             ELSE _load_plugin_file(plugs, classes, i + 1)

\* _discover_plugins_in_path (lines 132-159), from file i on
RECURSIVE _discover_plugins_in_path(_, _, _)
_discover_plugins_in_path(plugs, path, i) ==
    IF ~path_exists(path) \/ i > Len(PluginFiles(path)) THEN plugs
    ELSE _discover_plugins_in_path(_load_plugin_file(plugs, PluginFiles(path)[i], 1),
                                   path, i + 1)

\* the loop of lines 83-84 over the discovery paths
RECURSIVE DiscoverPaths(_, _, _)
DiscoverPaths(plugs, paths, i) ==
    IF i > Len(paths) THEN plugs
    ELSE DiscoverPaths(_discover_plugins_in_path(plugs, paths[i], 1), paths, i + 1)

\* discover_plugins (lines 74-84): the plugin map it leaves and the exception
\* that escapes it
discover_plugins ==
    IF ~auto_discover THEN [plugins |-> plugins, exc |-> "none"]
    ELSE LET builtin == _discover_builtin_converters(plugins, get_all_plugins, 1)
         IN  IF builtin.exc # "none" THEN builtin
             ELSE [plugins |-> DiscoverPaths(builtin.plugins, discovery_paths, 1),
                   exc |-> "none"]

\* get_available_plugins (lines 194-196): the registered names whose probe
\* returns True; a raising probe raises out of the comprehension
get_available_plugins ==
    IF \E n \in DOMAIN plugins : Raises(probe[n])
    THEN [exc |-> CHOOSE e \in ProbeOutcomes :
                      \E n \in DOMAIN plugins : Raises(probe[n]) /\ probe[n] = e,
          ret |-> {}]
    ELSE [exc |-> "none", ret |-> {n \in DOMAIN plugins : probe[n] = "true"}]

----------------------------------------------------------------------------
(* ConverterFactory: creating converters, and the factory's health report *)

\* what plugin.create_converter() and get_dependencies()/get_metadata() do
CallOutcomes == {"ok", "raises"}

\* the plugins the creation specification registers and creates
CreateNames == {"markdown_to_pdf", "custom_pdf"}

\* a second plugin object that reports the name custom_pdf
ReplacementPlugin == [name |-> "custom_pdf", origin |-> "replacement"]

CreatablePlugins == [name : CreateNames, origin : {"manual"}] \cup {ReplacementPlugin}

\* the instance plugin.create_converter() builds
NewConverter(plugin) == [name |-> plugin.name, made_by |-> plugin]

\* create_converter(name, force_create) (lines 161-183) on the cache given:
\* the exception that escapes, the value returned and the cache it leaves.
\* plugin.is_available() (line 172) is called outside the try block of
\* lines 176-183
create_converter(cache, name, force_create) ==
    IF ~force_create /\ name \in DOMAIN cache
    THEN [exc |-> "none", ret |-> cache[name], converters |-> cache]
    ELSE IF name \notin DOMAIN plugins
    THEN [exc |-> "none", ret |-> None, converters |-> cache]
    ELSE IF Raises(probe[name])
    THEN [exc |-> probe[name], ret |-> None, converters |-> cache]
    ELSE IF probe[name] # "true"
    THEN [exc |-> "none", ret |-> None, converters |-> cache]
    ELSE IF build[name] = "raises"
    THEN [exc |-> "none", ret |-> None, converters |-> cache]
    ELSE [exc |-> "none", ret |-> NewConverter(plugins[name]),
          converters |-> DictSet(cache, name, NewConverter(plugins[name]))]

\* the orders in which a dict holding the keys S can iterate
Orderings(S) == {order \in [1..Cardinality(S) -> S] : Range(order) = S}

\* create_all_available_converters (lines 185-192), the loop from plugin i on
\* of the iteration order given
RECURSIVE create_all_available_converters(_, _, _, _)
create_all_available_converters(cache, order, i, created) ==
    IF i > Len(order) THEN [exc |-> "none", ret |-> created, converters |-> cache]
    ELSE LET out == create_converter(cache, order[i], FALSE)
         IN  IF out.exc # "none"
             THEN [exc |-> out.exc, ret |-> None, converters |-> out.converters]
             ELSE create_all_available_converters(
                      out.converters, order, i + 1,
                      IF out.ret # None THEN DictSet(created, order[i], out.ret)
                      ELSE created)

\* one entry of plugin_status (lines 214-227): the try block of a plugin
PluginStatus(name) ==
    IF Raises(probe[name])
    THEN [available |-> FALSE, error |-> probe[name]]
    ELSE IF describe[name] = "raises"
    THEN [available |-> FALSE, error |-> "describe failed"]
    ELSE [available |-> probe[name] = "true", dependencies |-> "ok",
          metadata |-> "ok"]

\* ConverterFactory.health_check (lines 208-233); get_available_plugins()
\* (line 211) is called before the loop, outside every try block
factory_health_check ==
    LET available == get_available_plugins
    IN  IF available.exc # "none" THEN [exc |-> available.exc, ret |-> None]
        ELSE [exc |-> "none",
              ret |-> [total_plugins |-> Cardinality(DOMAIN plugins),
                       available_plugins |-> Cardinality(available.ret),
                       status |-> IF Cardinality(available.ret) > 0 THEN "healthy"
                                  ELSE "no_plugins_available",
                       plugins |-> [n \in DOMAIN plugins |-> PluginStatus(n)]]]

CreateConverter(name, force_create) ==
    LET out == create_converter(factory_converters, name, force_create)
    IN  /\ factory_converters' = out.converters
        /\ flast' = [op |-> "create_converter", name |-> name, exc |-> out.exc,
                     force_create |-> force_create,
                     cached |-> name \in DOMAIN factory_converters,
                     ret |-> out.ret]
        /\ UNCHANGED <<plugins, discovery_paths, auto_discover, probe, build, describe>>

\* the plugin map does not keep the order of registration the dict iterates
\* in: every order of the registered names
CreateAllAvailableConverters ==
    \E order \in Orderings(DOMAIN plugins) :
        LET out == create_all_available_converters(factory_converters, order, 1,
                                                   EmptyDict)
        IN  /\ factory_converters' = out.converters
            /\ flast' = [op |-> "create_all_available_converters", name |-> "-",
                         exc |-> out.exc, before |-> DOMAIN factory_converters,
                         ret |-> out.ret]
            /\ UNCHANGED <<plugins, discovery_paths, auto_discover, probe, build,
                           describe>>

FactoryHealthCheck ==
    LET out == factory_health_check
    IN  /\ flast' = [op |-> "health_check", name |-> "-", exc |-> out.exc,
                     ret |-> out.ret]
        /\ UNCHANGED <<plugins, factory_converters, discovery_paths, auto_discover,
                       probe, build, describe>>

\* the environment changes: a dependency of a plugin is installed, removed or
\* broken
Environment(name) ==
    /\ \/ \E outcome \in ProbeOutcomes :
              /\ probe' = [probe EXCEPT ![name] = outcome]
              /\ UNCHANGED <<build, describe>>
       \/ \E outcome \in CallOutcomes :
              /\ build' = [build EXCEPT ![name] = outcome]
              /\ UNCHANGED <<probe, describe>>
       \/ \E outcome \in CallOutcomes :
              /\ describe' = [describe EXCEPT ![name] = outcome]
              /\ UNCHANGED <<probe, build>>
    /\ flast' = [op |-> "environment", name |-> name, exc |-> "none"]
    /\ UNCHANGED <<plugins, factory_converters, discovery_paths, auto_discover>>

DiscoverPlugins ==
    LET out == discover_plugins
    IN  /\ plugins' = out.plugins
        /\ flast' = [op |-> "discover_plugins", name |-> "-", exc |-> out.exc]
        /\ UNCHANGED <<discovery_paths, auto_discover, probe>>

RegisterPlugin(plugin) ==
    /\ plugins' = register_plugin(plugins, plugin)
    /\ flast' = [op |-> "register_plugin", name |-> plugin.name, exc |-> "none"]
    /\ UNCHANGED <<discovery_paths, auto_discover, probe>>

\* set_auto_discover (lines 56-58)
SetAutoDiscover(enabled) ==
    /\ auto_discover' = enabled
    /\ flast' = [op |-> "set_auto_discover", name |-> "-", exc |-> "none"]
    /\ UNCHANGED <<plugins, discovery_paths, probe>>

\* add_discovery_path (lines 60-63)
AddDiscoveryPath(path) ==
    /\ discovery_paths' = IF path \in Range(discovery_paths) THEN discovery_paths
                          ELSE Append(discovery_paths, path)
    /\ flast' = [op |-> "add_discovery_path", name |-> path, exc |-> "none"]
    /\ UNCHANGED <<plugins, auto_discover, probe>>

\* ConverterFactory.__init__ (lines 50-54)
FactoryNew ==
    /\ plugins = EmptyDict
    /\ factory_converters = EmptyDict
    /\ discovery_paths = <<>>
    /\ auto_discover = TRUE
    /\ flast = [op |-> "init", name |-> "-", exc |-> "none"]

\* every plugin builds its converter and describes itself without raising
Constructible ==
    /\ build = [n \in PluginNames |-> "ok"]
    /\ describe = [n \in PluginNames |-> "ok"]

\* the factory untouched, every dependency installed
FactoryIdle == FactoryNew /\ probe = [n \in PluginNames |-> "true"] /\ Constructible

----------------------------------------------------------------------------
(* The factory specification: any environment, then factory calls *)

InitFactory ==
    /\ RegistryInit
    /\ FactoryNew
    /\ probe \in [PluginNames -> ProbeOutcomes]
    /\ Constructible
    /\ ConfigNew
    /\ ExtNew

DiscoverStep == DiscoverPlugins /\ UNCHANGED <<regVars, createVars, cfgVars, extVars>>

RegisterPluginStep ==
    \E p \in ManualPlugins : RegisterPlugin(p) /\ UNCHANGED <<regVars, createVars, cfgVars, extVars>>

SetAutoDiscoverStep ==
    \E b \in BOOLEAN : SetAutoDiscover(b) /\ UNCHANGED <<regVars, createVars, cfgVars, extVars>>

AddDiscoveryPathStep ==
    \E p \in Paths : AddDiscoveryPath(p) /\ UNCHANGED <<regVars, createVars, cfgVars, extVars>>

NextFactory ==
    DiscoverStep \/ RegisterPluginStep \/ SetAutoDiscoverStep \/ AddDiscoveryPathStep

SpecFactory == InitFactory /\ [][NextFactory]_vars

----------------------------------------------------------------------------
(* The creation specification: plugins registered by hand, converters       *)
(* created from them, while the environment changes                         *)

InitCreate == RegistryInit /\ FactoryIdle /\ ConfigNew /\ ExtNew

RegisterCreatableStep ==
    \E p \in CreatablePlugins :
        RegisterPlugin(p) /\ UNCHANGED <<regVars, createVars, cfgVars, extVars>>

CreateConverterStep ==
    \E n \in CreateNames, force_create \in BOOLEAN :
        CreateConverter(n, force_create) /\ UNCHANGED <<regVars, cfgVars, extVars>>

CreateAllStep == CreateAllAvailableConverters /\ UNCHANGED <<regVars, cfgVars, extVars>>

FactoryHealthCheckStep == FactoryHealthCheck /\ UNCHANGED <<regVars, cfgVars, extVars>>

EnvironmentStep ==
    \E n \in CreateNames : Environment(n) /\ UNCHANGED <<regVars, cfgVars, extVars>>

NextCreate ==
    \/ RegisterCreatableStep
    \/ CreateConverterStep
    \/ CreateAllStep
    \/ FactoryHealthCheckStep
    \/ EnvironmentStep

SpecCreate == InitCreate /\ [][NextCreate]_vars

----------------------------------------------------------------------------
(* The configuration specification *)

InitConfig == RegistryInit /\ FactoryIdle /\ ConfigNew /\ ExtNew

SetConfigEntryStep ==
    \E entry \in ConfigEntries :
        SetConfigEntry(entry) /\ UNCHANGED <<regVars, facVars, createVars, extVars>>

UpdateConfigValueStep ==
    \E key \in ConfigKeys, value \in ConfigValues :
        UpdateConfigValue(key, value) /\ UNCHANGED <<regVars, facVars, createVars, extVars>>

NextConfig == SetConfigEntryStep \/ UpdateConfigValueStep

SpecConfig == InitConfig /\ [][NextConfig]_vars

----------------------------------------------------------------------------
(* The health specification: converters of every health registered and     *)
(* unregistered, the report asked for directly and over HTTP                *)

InitHealth == RegistryInit /\ FactoryIdle /\ ConfigNew /\ ExtNew

RegisterAnyStep ==
    \E c \in HealthConverters : Register(c) /\ UNCHANGED <<facVars, createVars, cfgVars, extVars>>

UnregisterAnyStep ==
    \E n \in HealthNames : Unregister(n) /\ UNCHANGED <<facVars, createVars, cfgVars, extVars>>

HealthCheckStep == HealthCheck /\ UNCHANGED <<facVars, createVars, cfgVars, extVars>>

AppHealthCheckStep == AppHealthCheck /\ UNCHANGED <<facVars, createVars, cfgVars, extVars>>

ConversionHealthCheckStep ==
    ConversionHealthCheck /\ UNCHANGED <<facVars, createVars, cfgVars, extVars>>

NextHealth ==
    \/ RegisterAnyStep
    \/ UnregisterAnyStep
    \/ HealthCheckStep
    \/ AppHealthCheckStep
    \/ ConversionHealthCheckStep

SpecHealth == InitHealth /\ [][NextHealth]_vars


----------------------------------------------------------------------------
(* The probe specification: registered converters whose state changes       *)
(* between one health probe and the next                                    *)

ProbeNames == {"a", "b"}

ProbeConverters == {c \in HealthConverters : c.name \in ProbeNames}

\* a registered instance changes what its get_health_status() and
\* validate_request() give (base.py lines 117-126, 176-183); the registry is
\* not told
ConverterChanges(converter) ==
    /\ converter.name \in DOMAIN converters
    /\ converters' = [converters EXCEPT ![converter.name] = converter]
    /\ converter.supported_formats = converters[converter.name].supported_formats
    /\ last' = [op |-> "change", name |-> converter.name, arg |-> converter,
                existed |-> TRUE, request |-> None, status |-> "-",
                exc |-> "none", ret |-> None, calls |-> <<>>]
    /\ UNCHANGED <<format_mapping, health_status>>

InitProbe == RegistryInit /\ FactoryIdle /\ ConfigNew /\ ExtNew

RegisterProbedStep ==
    \E c \in ProbeConverters : Register(c) /\ UNCHANGED <<facVars, createVars, cfgVars, extVars>>

UnregisterProbedStep ==
    \E n \in ProbeNames : Unregister(n) /\ UNCHANGED <<facVars, createVars, cfgVars, extVars>>

ConverterChangesStep ==
    \E c \in ProbeConverters :
        ConverterChanges(c) /\ UNCHANGED <<facVars, createVars, cfgVars, extVars>>

ProbeAllStep == HealthCheck /\ UNCHANGED <<facVars, createVars, cfgVars, extVars>>

NextProbe ==
    \/ RegisterProbedStep
    \/ UnregisterProbedStep
    \/ ConverterChangesStep
    \/ ProbeAllStep

SpecProbe == InitProbe /\ [][NextProbe]_vars

----------------------------------------------------------------------------
(* The container specification *)

exceptContainer == <<regVars, facVars, createVars, cfgVars, asyncVars, rateVars, batchVars>>

InitContainer == RegistryInit /\ FactoryIdle /\ ConfigNew /\ ExtNew

RegisterSingletonStep ==
    \E t \in ServiceTypes : RegisterSingleton(t) /\ UNCHANGED exceptContainer

RegisterScopedStep ==
    \E t \in ServiceTypes : RegisterScoped(t) /\ UNCHANGED exceptContainer

RegisterTransientStep ==
    \E t \in ServiceTypes : RegisterTransient(t) /\ UNCHANGED exceptContainer

RegisterFactoryStep ==
    \E t \in ServiceTypes, lifetime \in Lifetimes :
        RegisterFactory(t, lifetime) /\ UNCHANGED exceptContainer

RegisterInstanceStep ==
    \E t \in ServiceTypes : RegisterInstance(t) /\ UNCHANGED exceptContainer

GetServiceStep ==
    \E on \in {"root", "scope"}, t \in ServiceTypes :
        GetService(on, t) /\ UNCHANGED exceptContainer

CreateScopeStep == CreateScope /\ UNCHANGED exceptContainer

DisposeScopeStep == DisposeScope /\ UNCHANGED exceptContainer

NextContainer ==
    \/ RegisterSingletonStep
    \/ RegisterScopedStep
    \/ RegisterTransientStep
    \/ RegisterFactoryStep
    \/ RegisterInstanceStep
    \/ GetServiceStep
    \/ CreateScopeStep
    \/ DisposeScopeStep

SpecContainer == InitContainer /\ [][NextContainer]_vars

----------------------------------------------------------------------------
(* The rate-limit specification: any configured limit, then requests as time
   passes *)

exceptRate == <<regVars, facVars, createVars, cfgVars, asyncVars, diVars, batchVars>>

InitRate ==
    /\ RegistryInit /\ FactoryIdle /\ ConfigNew /\ AsyncNew /\ ContainerNew /\ BatchNew
    /\ RateStart
    /\ rate_limit_requests \in 0..MaxLimit

DispatchStep == \E ip \in Clients : Dispatch(ip) /\ UNCHANGED exceptRate

ClockMovesStep == \E d \in ClockSteps : ClockMoves(d) /\ UNCHANGED exceptRate

NextRate == DispatchStep \/ ClockMovesStep

SpecRate == InitRate /\ [][NextRate]_vars

----------------------------------------------------------------------------
(* The batch-job specification: start requests interleaved at their awaits *)

exceptBatch == <<regVars, facVars, createVars, cfgVars, asyncVars, diVars, rateVars>>

InitBatch == RegistryInit /\ FactoryIdle /\ ConfigNew /\ ExtNew

CreateBatchJobStep == CreateBatchJob /\ UNCHANGED exceptBatch

AddFilesStep == AddFiles /\ UNCHANGED exceptBatch

StartBeginsStep == \E r \in StartRequests : StartBegins(r) /\ UNCHANGED exceptBatch

StartReadsStep == \E r \in StartRequests : StartReads(r) /\ UNCHANGED exceptBatch

StartUpdatesStep == \E r \in StartRequests : StartUpdates(r) /\ UNCHANGED exceptBatch

ProcessBatchJobEndsStep ==
    \E status \in {"completed", "failed"} :
        ProcessBatchJobEnds(status) /\ UNCHANGED exceptBatch

NextBatch ==
    \/ CreateBatchJobStep
    \/ AddFilesStep
    \/ StartBeginsStep
    \/ StartReadsStep
    \/ StartUpdatesStep
    \/ ProcessBatchJobEndsStep

SpecBatch == InitBatch /\ [][NextBatch]_vars

----------------------------------------------------------------------------
(* The named-conversion specification: BaseConverter.__init__ (base.py lines
   107-115) takes any string as a name, the empty one included *)

NamedNames == {"a", ""}

NamedConverters ==
    [name : NamedNames, supported_formats : {<<"pdf">>, <<"html">>},
     validates : BOOLEAN, is_initialized : {TRUE}, errors : {<<>>},
     probe_raises : {FALSE}]

InitNamed == RegistryInit /\ FactoryIdle /\ ConfigNew /\ ExtNew

RegisterNamedStep ==
    \E c \in NamedConverters :
        Register(c) /\ UNCHANGED <<facVars, createVars, cfgVars, extVars>>

UnregisterNamedStep ==
    \E n \in NamedNames :
        Unregister(n) /\ UNCHANGED <<facVars, createVars, cfgVars, extVars>>

ConvertNamedStep ==
    \E r \in Requests, n \in NamedNames \cup {NoName, "b"}, s \in ResultStatuses :
        Convert(r, n, s) /\ UNCHANGED <<facVars, createVars, cfgVars, extVars>>

NextNamed == RegisterNamedStep \/ UnregisterNamedStep \/ ConvertNamedStep

SpecNamed == InitNamed /\ [][NextNamed]_vars

----------------------------------------------------------------------------
(* The coroutine specification *)

exceptAsync == <<facVars, createVars, cfgVars, diVars, rateVars, batchVars>>

InitAsync == RegistryInit /\ FactoryIdle /\ ConfigNew /\ ExtNew

RegisterBeginStep ==
    \E c \in AsyncConverters :
        RegisterBegin(c) /\ UNCHANGED exceptAsync

RegisterEndStep == RegisterEnd /\ UNCHANGED exceptAsync

UnregisterBeginStep ==
    \E n \in Names : UnregisterBegin(n) /\ UNCHANGED exceptAsync

UnregisterEndStep == UnregisterEnd /\ UNCHANGED exceptAsync

ConvertBeginStep ==
    \E n \in Names \cup {NoName} :
        ConvertBegin(AsyncRequest, n) /\ UNCHANGED exceptAsync

ConvertResumeStep ==
    \E call \in inflight :
        ConvertResume(call) /\ UNCHANGED exceptAsync

HealthCheckAtomicStep == HealthCheckAtomic /\ UNCHANGED exceptAsync

NextAsync ==
    \/ RegisterBeginStep
    \/ RegisterEndStep
    \/ UnregisterBeginStep
    \/ UnregisterEndStep
    \/ ConvertBeginStep
    \/ ConvertResumeStep
    \/ HealthCheckAtomicStep

SpecAsync == InitAsync /\ [][NextAsync]_vars

----------------------------------------------------------------------------
(* The registry specification *)

Init == RegistryInit /\ FactoryIdle /\ ConfigNew /\ ExtNew

RegisterStep ==
    \E c \in Converters : Register(c) /\ UNCHANGED <<facVars, createVars, cfgVars, extVars>>

UnregisterStep ==
    \E n \in Names : Unregister(n) /\ UNCHANGED <<facVars, createVars, cfgVars, extVars>>

ConvertStep ==
    \E r \in Requests, n \in ConverterNameArgs, s \in ResultStatuses :
        Convert(r, n, s) /\ UNCHANGED <<facVars, createVars, cfgVars, extVars>>

Next == RegisterStep \/ UnregisterStep \/ ConvertStep

Spec == Init /\ [][Next]_vars

----------------------------------------------------------------------------
(* Properties of the registry, checked under Spec *)

\* C1: after unregister_converter(name) returns, get_converter(name) is None
\* and no format-index list contains name, whatever calls came before.
C1_UnregisterLeavesNoTrace ==
    last.op = "unregister" =>
        /\ get_converter(last.name) = None
        /\ \A f \in DOMAIN format_mapping : last.name \notin Range(format_mapping[f])

\* C2: every name in a format-index list is a key of the name-map, so
\* get_converters_for_format never fails on a dangling name.
C2_IndexNamesAreRegistered ==
    \A f \in Formats :
        /\ \A n \in Range(FormatIndex(f)) : n \in DOMAIN converters
        /\ get_converters_for_format(f).exc = "none"

\* C3: the instance last registered under a name is the one get_converter
\* returns, and for each of its supported formats get_converters_for_format
\* returns a list that contains it.
C3_RegisteredIsFoundByNameAndFormat ==
    /\ last.op = "register" => get_converter(last.name) = last.arg
    /\ \A n \in DOMAIN converters :
           LET C == converters[n]
           IN  \A i \in DOMAIN C.supported_formats :
                   LET listed == get_converters_for_format(C.supported_formats[i])
                   IN  listed.exc = "none" /\ C \in Range(listed.ret)

C5_DuplicateRegistrationRaises ==
    last.op = "register" /\ last.existed => last.exc = "ValueError"

\* C6: find_best_converter returns the first converter, in format-index
\* order, whose validate_request is true, and None when there is none.
C6_FindBestIsFirstValidating ==
    \A r \in Requests :
        LET names == FormatIndex(r.output_format)
            found == find_best_converter(r)
            valid == {i \in DOMAIN names :
                         /\ names[i] \in DOMAIN converters
                         /\ validate_request(converters[names[i]], r)}
        IN  /\ found.exc = "none"
            /\ IF valid = {} THEN found.ret = None
               ELSE found.ret = converters[names[MinOf(valid)]]

\* C7 as claimed: convert with a converter_name that is no key of the
\* name-map fails with the "not found" ValidationError and runs no convert().
C7_MissingNameAlwaysFails ==
    last.op = "convert" /\ last.name # NoName /\ last.name \notin DOMAIN converters =>
        last.exc = "ValidationError: not found" /\ last.calls = <<>>

\* C7 amended: convert with a non-empty converter_name that is no key of the
\* name-map fails with the "not found" ValidationError and runs no convert().
C7_MissingNonEmptyNameFails ==
    last.op = "convert" /\ last.name \notin {NoName, ""}
                        /\ last.name \notin DOMAIN converters =>
        last.exc = "ValidationError: not found" /\ last.calls = <<>>

\* C7 witness: a missing name was asked for while a registered converter
\* would have taken the request by format.
C7_Witness ==
    /\ last.op = "convert" /\ last.name \in Names /\ last.name \notin DOMAIN converters
    /\ last.exc = "ValidationError: not found" /\ last.calls = <<>>
    /\ find_best_converter(last.request).ret # None

\* C8: convert without a converter name runs convert() once, on the
\* converter find_best_converter selects, and returns its result unchanged.
C8_ConvertRunsBestOnce ==
    last.op = "convert" /\ last.name = NoName =>
        LET best == find_best_converter(last.request)
        IN  IF best.exc = "none" /\ best.ret # None
            THEN /\ last.exc = "none"
                 /\ last.calls = <<best.ret>>
                 /\ last.ret = converter_convert(best.ret, last.request, last.status)
                 /\ last.status \in ResultStatuses
            ELSE last.calls = <<>>

\* C8 witness: the selected converter is the second of its list (the first
\* rejects the request) and hands back a failed result.
C8_Witness ==
    /\ last.op = "convert" /\ last.name = NoName /\ last.exc = "none"
    /\ last.ret.status = "failed"
    /\ LET names == FormatIndex(last.request.output_format)
       IN  /\ Len(names) = 2
           /\ last.calls = <<converters[names[2]]>>
           /\ ~validate_request(converters[names[1]], last.request)

\* C9: convert without a converter name fails with the "No converter
\* available" ValidationError and runs no convert() whenever no registered
\* converter listed for the requested format validates the request.
C9_NoConverterIsValidationError ==
    last.op = "convert" /\ last.name = NoName =>
        LET names == FormatIndex(last.request.output_format)
            valid == {n \in Range(names) \cap DOMAIN converters :
                         validate_request(converters[n], last.request)}
        IN  valid = {} =>
                /\ last.exc = "ValidationError: No converter available"
                /\ last.calls = <<>>

----------------------------------------------------------------------------
(* Properties of the factory, checked under SpecFactory *)

\* C10: when a built-in plugin's is_available() raises, discover_plugins lets
\* no exception out, registers every other available built-in plugin, and the
\* raising plugin is not among get_available_plugins().
C10_DiscoveryIsolatesRaisingProbe ==
    flast.op = "discover_plugins" /\ auto_discover
                                  /\ (\E p \in BuiltinNames : Raises(probe[p])) =>
        /\ flast.exc = "none"
        /\ \A q \in BuiltinNames : probe[q] = "true" => q \in DOMAIN plugins
        /\ get_available_plugins.exc = "none"
        /\ \A p \in BuiltinNames :
               Raises(probe[p]) => p \notin get_available_plugins.ret

----------------------------------------------------------------------------
(* Properties of converter creation, checked under SpecCreate *)

\* C11: create_converter(name, force_create) never raises: it returns the
\* cached instance when one exists and force_create is false; otherwise None
\* when the name is no registered plugin, the plugin is not available or its
\* create_converter() raises; otherwise a new instance, which it caches.
C11_CreateConverterNeverRaises ==
    flast.op = "create_converter" =>
        /\ flast.exc = "none"
        /\ IF flast.cached /\ ~flast.force_create
           THEN flast.ret = factory_converters[flast.name]
           ELSE IF \/ flast.name \notin DOMAIN plugins
                   \/ probe[flast.name] # "true"
                   \/ build[flast.name] = "raises"
           THEN flast.ret = None
           ELSE /\ flast.ret = NewConverter(plugins[flast.name])
                /\ flast.name \in DOMAIN factory_converters
                /\ factory_converters[flast.name] = flast.ret

\* C12: create_all_available_converters() never raises and returns a map
\* whose keys are exactly the registered plugin names for which an instance
\* could be obtained (cached before the call, or available and constructible);
\* a plugin whose probe or construction fails is left out without keeping the
\* others from being created.
C12_CreateAllReturnsObtainable ==
    flast.op = "create_all_available_converters" =>
        /\ flast.exc = "none"
        /\ DOMAIN flast.ret =
               {n \in DOMAIN plugins :
                    \/ n \in flast.before
                    \/ probe[n] = "true" /\ build[n] = "ok"}

\* C13: ConverterFactory.health_check() always returns a report: a plugin
\* whose is_available(), get_dependencies() or get_metadata() raises gets the
\* entry {available: false, error}, every other plugin its normal entry, and
\* no exception escapes.
C13_FactoryHealthCheckIsolates ==
    flast.op = "health_check" =>
        /\ flast.exc = "none"
        /\ DOMAIN flast.ret.plugins = DOMAIN plugins
        /\ \A n \in DOMAIN plugins :
               IF Raises(probe[n]) \/ describe[n] = "raises"
               THEN /\ flast.ret.plugins[n].available = FALSE
                    /\ "error" \in DOMAIN flast.ret.plugins[n]
               ELSE /\ flast.ret.plugins[n].available = (probe[n] = "true")
                    /\ "error" \notin DOMAIN flast.ret.plugins[n]

----------------------------------------------------------------------------
(* Properties of the registry's health report, checked under SpecHealth *)

\* the registered converters a fresh probe finds in the status given
Probed(status) ==
    {n \in DOMAIN converters : _check_converter_health(converters[n]) = status}

\* C14: in the report of health_check() the healthy, degraded and unhealthy
\* counts add up to the total, none is negative, and each is the number of
\* entries of the per-converter status map holding that status.
C14_HealthCountsAddUp ==
    last.op = "health_check" =>
        LET report == last.ret
            Entries(status) ==
                Cardinality({n \in DOMAIN report.converters :
                                 report.converters[n] = status})
        IN  /\ report.healthy_converters + report.degraded_converters
                   + report.unhealthy_converters = report.total_converters
            /\ report.healthy_converters >= 0
            /\ report.degraded_converters >= 0
            /\ report.unhealthy_converters >= 0
            /\ report.healthy_converters = Entries("healthy")
            /\ report.degraded_converters = Entries("degraded")
            /\ report.unhealthy_converters = Entries("unhealthy")

\* a report over one healthy, one degraded and one unhealthy converter
C14_Witness ==
    /\ last.op = "health_check"
    /\ last.ret.healthy_converters = 1
    /\ last.ret.degraded_converters = 1
    /\ last.ret.unhealthy_converters = 1

\* C15: the report's overall status is "unhealthy" exactly when no registered
\* converter is healthy (an empty registry included), otherwise "degraded"
\* exactly when at least one converter is degraded, otherwise "healthy".
C15_OverallStatus ==
    last.op = "health_check" =>
        /\ last.ret.status = "unhealthy" <=> Probed("healthy") = {}
        /\ last.ret.status = "degraded" <=>
               Probed("healthy") # {} /\ Probed("degraded") # {}
        /\ last.ret.status = "healthy" <=>
               Probed("healthy") # {} /\ Probed("degraded") = {}

\* a report over degraded converters and no healthy one
C15_Witness ==
    /\ last.op = "health_check"
    /\ Probed("healthy") = {}
    /\ Probed("degraded") # {}
    /\ last.ret.status = "unhealthy"

\* C16: the health endpoints answer 200 only when every registered converter
\* is healthy, 207 when some converter is degraded (and one is healthy), and
\* 503 when no converter is healthy.
C16_HealthResponseCodes ==
    last.op \in {"GET /health", "GET /api/v1/convert/health"} =>
        /\ last.ret.status_code = 200 => Probed("healthy") = DOMAIN converters
        /\ Probed("degraded") # {} /\ Probed("healthy") # {} =>
               last.ret.status_code = 207
        /\ Probed("healthy") = {} => last.ret.status_code = 503

----------------------------------------------------------------------------
(* Properties of the configuration manager, checked under SpecConfig *)

\* the value breaks a rule of the validation_rules given: it is not among the
\* allowed values, not of the type asked for, or a number outside the range
Violates(rules, value) ==
    /\ rules # None
    /\ \/ "allowed_values" \in DOMAIN rules /\ value \notin rules.allowed_values
       \/ "type" \in DOMAIN rules /\ TypeOf(value) # rules.type
       \/ /\ "min_value" \in DOMAIN rules
          /\ IsNumber(value) /\ value.int < rules.min_value
       \/ /\ "max_value" \in DOMAIN rules
          /\ IsNumber(value) /\ value.int > rules.max_value

\* C17: update_config_value(key, value) returns false and leaves the entry
\* and the value get_config_value(key) returns unchanged when the key has no
\* entry or the value violates the entry's validation rules; otherwise it
\* returns true and get_config_value(key) returns the value.
C17_UpdateValidates ==
    clast.op = "update_config_value" =>
        LET known == clast.old_entry # None
            now == get_config_value(clast.key, [str |-> "<default>"])
        IN  IF ~known
            THEN /\ clast.ret = FALSE
                 /\ clast.key \notin DOMAIN config_entries
                 /\ now = clast.old_value
            ELSE IF Violates(clast.old_entry.validation_rules, clast.value)
            THEN /\ clast.ret = FALSE
                 /\ config_entries[clast.key] = clast.old_entry
                 /\ now = clast.old_value
            ELSE /\ clast.ret = TRUE
                 /\ now = clast.value

\* an update refused because the number is above the entry's max_value
C17_Witness ==
    /\ clast.op = "update_config_value"
    /\ clast.old_entry # None
    /\ "max_value" \in DOMAIN clast.old_entry.validation_rules
    /\ IsNumber(clast.value)
    /\ clast.value.int > clast.old_entry.validation_rules.max_value
    /\ clast.ret = FALSE

----------------------------------------------------------------------------
(* Properties of the format index, checked under Spec *)

\* the registered names whose current instance declares the format
Supporting(format) ==
    {n \in DOMAIN converters : format \in Range(converters[n].supported_formats)}

\* C18: get_supported_formats() returns exactly the formats for which
\* get_converters_for_format() returns a non-empty list; no format-index entry
\* is an empty list; and a format is gone from it as soon as the last
\* converter supporting it is unregistered.
C18_SupportedFormatsAreServed ==
    /\ \A format \in Formats :
           format \in get_supported_formats <=>
               /\ get_converters_for_format(format).exc = "none"
               /\ get_converters_for_format(format).ret # <<>>
    /\ \A format \in DOMAIN format_mapping : format_mapping[format] # <<>>
    /\ last.op = "unregister" =>
           \A format \in Formats :
               Supporting(format) = {} => format \notin get_supported_formats

\* C19: get_converters_for_format(F) lists the registered instances that
\* support F, each once, in the order of the register_converter calls that
\* registered them (so the instance of the latest call comes last), and is
\* empty when no converter supports F.
C19_ListedInRegistrationOrder ==
    \A format \in Formats :
        LET out == get_converters_for_format(format)
        IN  /\ out.exc = "none"
            /\ Range(out.ret) = {converters[n] : n \in Supporting(format)}
            /\ Len(out.ret) = Cardinality(Supporting(format))
            /\ last.op = "register" /\ format \in Range(last.arg.supported_formats) =>
                   out.ret # <<>> /\ out.ret[Len(out.ret)] = last.arg

----------------------------------------------------------------------------
(* Properties of plugin discovery, checked under SpecFactory *)

\* the plugin classes of the files of the existing discovery paths
PathPluginNames ==
    UNION {UNION {Range(PluginFiles(path)[i]) : i \in DOMAIN PluginFiles(path)} :
               path \in {p \in Range(discovery_paths) : path_exists(p)}}

\* C20: discover_plugins() is idempotent while availability stays the same:
\* a second run leaves the set of registered names the first run left; a run
\* removes no registered plugin, registers or replaces only plugins whose
\* is_available() is true, and (no probe raising) leaves every available
\* plugin it finds under the descriptor found, whoever registered it before.
C20_DiscoveryIsIdempotent ==
    [][DiscoverPlugins =>
          /\ DOMAIN (discover_plugins.plugins)' = DOMAIN plugins'
          /\ DOMAIN plugins \subseteq DOMAIN plugins'
          /\ \A n \in DOMAIN plugins' :
                 n \notin DOMAIN plugins \/ plugins'[n] # plugins[n] =>
                     probe[n] = "true"
          /\ auto_discover /\ (\A n \in PluginNames : ~Raises(probe[n])) =>
                 \A n \in BuiltinNames \cup PathPluginNames :
                     probe[n] = "true" =>
                         /\ n \in DOMAIN plugins'
                         /\ plugins'[n].origin # "manual"]_vars

\* a run over a plugin map holding a plugin registered by hand that is not
\* available, and one that the run found again and replaced
C20_Witness ==
    /\ flast.op = "discover_plugins"
    /\ flast.exc = "none"
    /\ \E n \in DOMAIN plugins : plugins[n].origin = "manual" /\ probe[n] = "false"
    /\ \E n \in DOMAIN plugins : plugins[n].origin = "builtin"
    /\ \E n \in DOMAIN plugins : plugins[n].origin = "path"

----------------------------------------------------------------------------
(* Further properties of the registry, checked under Spec *)

\* C21: unregister_converter(name) for a name that is not registered returns
\* without raising and leaves the name-map, the format-index and the stored
\* health snapshots as they were.
C21_UnregisterUnknownChangesNothing ==
    [][(\E n \in Names : n \notin DOMAIN converters /\ Unregister(n)) =>
           /\ last'.exc = "none"
           /\ UNCHANGED <<converters, format_mapping, health_status>>]_vars

\* an unregister_converter of an unregistered name the format index still
\* lists, beside a registered converter
C21_Witness ==
    /\ last.op = "unregister"
    /\ ~last.existed
    /\ converters # EmptyDict
    /\ \E format \in DOMAIN format_mapping : last.name \in Range(format_mapping[format])

----------------------------------------------------------------------------
(* Properties of the health snapshots, checked under SpecProbe *)

\* the status the claim gives a converter, from what its probe shows now
StatusOf(converter) ==
    IF converter.probe_raises \/ ~converter.is_initialized THEN "unhealthy"
    ELSE IF converter.errors # <<>> \/ ~converter.validates THEN "degraded"
    ELSE "healthy"

\* C22: the status register_converter or health_check() records for a
\* converter is healthy, degraded or unhealthy and follows from the
\* converter's current probe alone, whatever the snapshot before was; a
\* probe that raises makes no health_check() raise and changes no other
\* converter's entry.
C22_SnapshotFollowsCurrentProbe ==
    /\ \A n \in DOMAIN health_status :
           health_status[n] \in {"healthy", "degraded", "unhealthy"}
    /\ last.op = "register" => health_status[last.name] = StatusOf(last.arg)
    /\ last.op = "health_check" =>
           /\ last.exc = "none"
           /\ \A n \in DOMAIN converters : health_status[n] = StatusOf(converters[n])
           /\ last.ret.converters =
                  [n \in DOMAIN converters |-> StatusOf(converters[n])]

\* a health_check() over a converter whose probe raises and another that it
\* finds healthy
C22_Witness ==
    /\ last.op = "health_check"
    /\ \E n \in DOMAIN converters : converters[n].probe_raises
    /\ \E n \in DOMAIN converters : health_status[n] = "healthy"

----------------------------------------------------------------------------
(* Properties of the registry under coroutines, checked under SpecAsync *)

\* C23: a register_converter, unregister_converter or health_check call
\* runs to its end before any other coroutine starts or resumes, so none sees
\* the name-map and the format index half updated; and a convert() suspended
\* at its await completes with the instance it selected, even when that
\* converter was unregistered or replaced in the meantime.
C23_RegistryCallsAreAtomic ==
    [][/\ running # Idle =>
              /\ running' = Idle
              /\ UNCHANGED <<inflight, done, last>>
       /\ done'.ran = done'.selected]_vars

\* a convert() that completed after its converter had been replaced
C23_Witness ==
    /\ done.op = "convert"
    /\ done.exc = "none"
    /\ done.selected.name \in DOMAIN converters
    /\ converters[done.selected.name] # done.selected
    /\ running = Idle


\* C24: in every state reached by register_converter and unregister_converter
\* calls, each instance that get_converters_for_format(F) returns declares F
\* among its supported_formats.
C24_OfferedConvertersDeclareFormat ==
    \A F \in Formats :
        LET available == get_converters_for_format(F)
        IN  available.exc = "none" =>
                \A i \in DOMAIN available.ret :
                    F \in Range(available.ret[i].supported_formats)


\* C25 as stated: convert(request, converter_name=N) with N registered invokes
\* N's convert() and nothing else, whatever the request's output format and
\* whatever N's validate_request would say.
C25_NamedConverterIsInvoked ==
    (last.op = "convert" /\ last.name # NoName /\ last.existed) =>
        /\ last.exc = "none"
        /\ last.calls = <<converters[last.name]>>

\* C25 amended: convert(request, converter_name=N) with N registered and not
\* the empty string invokes N's convert() and nothing else, whatever the
\* request's output format and whatever N's validate_request would say.
C25_NonEmptyNamedConverterIsInvoked ==
    (last.op = "convert" /\ last.name # NoName /\ last.name # "" /\ last.existed) =>
        /\ last.exc = "none"
        /\ last.calls = <<converters[last.name]>>

C25_Witness ==
    /\ last.op = "convert" /\ last.name = "a" /\ last.existed
    /\ last.request.output_format \notin Range(converters["a"].supported_formats)
    /\ ~validate_request(converters["a"], last.request)
    /\ last.exc = "none"
    /\ last.calls = <<converters["a"]>>


\* C26: create_converter(name) without force_create returns an instance built
\* by the plugin now registered under name, and a failed
\* create_converter(name, force_create=true) leaves no cached instance behind
\* for later calls to return.
C26_CacheFollowsPlugins ==
    /\ (flast.op = "create_converter" /\ ~flast.force_create /\ flast.exc = "none"
            /\ flast.ret # None) =>
           flast.ret.made_by = plugins[flast.name]
    /\ (flast.op = "create_converter" /\ flast.force_create /\ flast.ret = None) =>
           flast.name \notin DOMAIN factory_converters


\* the service type is registered once, with singleton lifetime
SingletonOnce(service_type) ==
    /\ registered = 1
    /\ service_type \in DOMAIN root._services
    /\ root._services[service_type].lifetime = "singleton"

\* C27: for a service type registered with singleton lifetime, every
\* get_service call, on the root container and on each scope created from it,
\* returns one and the same instance, whether the first resolution comes
\* before or after create_scope() and on whichever container.
C27_SingletonIsOneInstance ==
    \A t \in ServiceTypes : SingletonOnce(t) => Cardinality(served) <= 1

\* C28: after a service type is registered again, get_service returns an
\* instance of the latest registration, never one created or supplied under
\* the replaced registration.
C28_LatestRegistrationIsServed ==
    (dlast.op = "get_service" /\ dlast.on = "root" /\ dlast.exc = "none") =>
        dlast.ret.reg = root._services[dlast.service_type].reg


\* the requests of a client admitted with a time in the window (T - 60, T]
AdmittedInWindow(ip, T) ==
    {i \in DOMAIN admitted[ip] : admitted[ip][i] > T - Window /\ admitted[ip][i] <= T}

\* C29: for every client and every configured rate_limit_requests, the
\* requests admitted with times inside a trailing 60-second window never
\* number more than rate_limit_requests, and a rejected request is not
\* recorded against the client.
C29_AdmittedWithinLimit ==
    /\ \A ip \in Clients : \A T \in Range(admitted[ip]) :
           Cardinality(AdmittedInWindow(ip, T)) <= rate_limit_requests
    /\ rlast.status = 429 => ~rlast.recorded


====
